---- MODULE Spec2Model ----
(***************************************************************************)
(* Model of rusted-pxe's Proxy-DHCP responder: the supervisor loop of      *)
(* src/main.rs around DHCPProxyBuilder / DHCPProxy::run / handle_packet of *)
(* src/dhcp.rs.                                                            *)
(*                                                                         *)
(* Conventions.  A Rust Option<T> is a sequence of length at most one:     *)
(* None is << >> and Some(v) is <<v>>.  A String, a &str and a Vec<u8> are *)
(* sequences of bytes (a String is its UTF-8 bytes).  An Ipv4Addr is a     *)
(* sequence of four octets.  An Architecture, a MessageType and an Opcode  *)
(* are their wire codes.                                                   *)
(***************************************************************************)
EXTENDS Integers, Sequences, FiniteSets, TLC

VARIABLES
  pc,               \* position of the DHCP task (see the supervisor loop)
  builder,          \* DHCPProxyBuilder.responders
  socket,           \* DHCPProxy.socket: "bound", or "none" when there is none
  responders,       \* DHCPProxy.responders
  buf,              \* DHCPProxy.buf, the bytes written into it so far
  valid_bytes,      \* run's valid_bytes
  received,         \* history: the datagram this instance received last
  message,          \* history: the Message decoded from it, None when
                    \*   there is none
  response,         \* run's response
  response_buffer,  \* run's response_buffer
  err,              \* the Err the supervisor's match holds
  wire,             \* history: the datagrams sent, each with the request
                    \*   that it answers and the address it was sent to
  classified        \* history: the requests handle_packet has answered
                    \*   with Some(response), in the order of their receipt

vars == <<pc, builder, socket, responders, buf, valid_bytes, received,
          message, response, response_buffer, err, wire, classified>>

(***************************************************************************)
(* Bounds of the model.                                                    *)
(***************************************************************************)
\* longest responder table enumerated for handle_packet
MaxRules == 3
\* number of replies the wire log records before receiving stops
MaxSent == 2
\* number of answered requests the classified log records before receiving
\* stops
MaxClassified == 2
\* longest table enumerated over the rules with an empty user class filter
MaxClassRules == 2

(***************************************************************************)
(* Option<T>                                                               *)
(***************************************************************************)
None == << >>

Some(v) == <<v>>

IsSome(o) == o # << >>

Unwrap(o) == o[1]

(***************************************************************************)
(* Text constants, as UTF-8 bytes.                                         *)
(***************************************************************************)
\* "PXEClient"
PXEClient == <<80, 88, 69, 67, 108, 105, 101, 110, 116>>

\* "iPXE"
iPXE == <<105, 80, 88, 69>>

\* "ipxe.efi"
ipxe_efi == <<105, 112, 120, 101, 46, 101, 102, 105>>

\* "undionly.kpxe"
undionly_kpxe == <<117, 110, 100, 105, 111, 110, 108, 121, 46, 107, 112, 120, 101>>

\* "http://10.0.0.5/boot.ipxe"
boot_ipxe_url == <<104, 116, 116, 112, 58, 47, 47, 49, 48, 46, 48, 46, 48, 46, 53,
                   47, 98, 111, 111, 116, 46, 105, 112, 120, 101>>

\* Ipv4Addr::new(10, 0, 0, 5)
server_address == <<10, 0, 0, 5>>

\* Ipv4Addr::new(0, 0, 0, 0)
UNSPECIFIED == <<0, 0, 0, 0>>

(***************************************************************************)
(* dhcproto's enums, by wire code.                                         *)
(***************************************************************************)
BootRequest == 1
BootReply == 2

Discover == 1
Offer == 2
Request == 3

\* message types the program has no name for: Decline, Ack, Release
OtherMessageTypes == {4, 5, 7}

Intelx86PC == 0
BC == 7

\* an architecture main has no rule for: X86_64
OtherArchitecture == 4 + 5

OptVendorExtensions == 43
OptMessageType == 53
OptServerIdentifier == 54
OptParameterRequestList == 55
OptClassIdentifier == 60
OptBootfileName == 67
OptUserClass == 77
OptClientSystemArchitecture == 93
OptClientNetworkInterface == 94

\* the option codes the program reads or writes
OptionCodes == {OptVendorExtensions, OptMessageType, OptServerIdentifier,
                OptParameterRequestList, OptClassIdentifier, OptBootfileName,
                OptUserClass, OptClientSystemArchitecture,
                OptClientNetworkInterface}

\* a flags value with the bit below the broadcast bit set
BROADCAST_Bit14 == 32768 \div 2

\* Flags::default().set_broadcast(): the top bit of the 16-bit flags field
BROADCAST == 32768

(***************************************************************************)
(* core::str::from_utf8: the validity test of a byte sequence.             *)
(***************************************************************************)
IsCont(b) == b >= 128 /\ b <= 191

RECURSIVE Utf8Valid(_)
Utf8Valid(b) ==
  IF b = << >> THEN TRUE
  ELSE LET b1 == b[1]
           n == Len(b)
       IN IF b1 < 128 THEN Utf8Valid(Tail(b))
          ELSE IF b1 >= 194 /\ b1 <= 223
            THEN n >= 2 /\ IsCont(b[2]) /\ Utf8Valid(SubSeq(b, 3, n))
          ELSE IF b1 >= 224 /\ b1 <= 239
            THEN /\ n >= 3
                 /\ IsCont(b[2]) /\ IsCont(b[3])
                 /\ (b1 = 224 => b[2] >= 160)
                 /\ (b1 = 237 => b[2] <= 159)
                 /\ Utf8Valid(SubSeq(b, 4, n))
          ELSE IF b1 >= 240 /\ b1 <= 244
            THEN /\ n >= 4
                 /\ IsCont(b[2]) /\ IsCont(b[3]) /\ IsCont(b[4])
                 /\ (b1 = 240 => b[2] >= 144)
                 /\ (b1 = 244 => b[2] <= 143)
                 /\ Utf8Valid(SubSeq(b, 5, n))
          ELSE FALSE

\* str::from_utf8(bytes).unwrap_or_default() and
\* String::from_utf8(bytes).unwrap_or_default(): the text, or "" when the
\* bytes are not UTF-8
from_utf8_or_default(bytes) == IF Utf8Valid(bytes) THEN bytes ELSE << >>

\* str::starts_with
starts_with(s, prefix) ==
  Len(s) >= Len(prefix) /\ SubSeq(s, 1, Len(prefix)) = prefix

(***************************************************************************)
(* Ipv4Addr::to_string: dotted decimal, as ASCII bytes.                    *)
(***************************************************************************)
Digit(d) == 48 + d

Decimal(n) ==
  IF n < 10 THEN <<Digit(n)>>
  ELSE IF n < 100 THEN <<Digit(n \div 10), Digit(n % 10)>>
  ELSE <<Digit(n \div 100), Digit((n \div 10) % 10), Digit(n % 10)>>

Ipv4ToString(a) ==
  Decimal(a[1]) \o <<46>> \o Decimal(a[2]) \o <<46>> \o Decimal(a[3])
    \o <<46>> \o Decimal(a[4])

(***************************************************************************)
(* dhcproto::v4::Message, restricted to the fields the program reads or    *)
(* sets.  opts maps every code of OptionCodes to None or Some(value); the  *)
(* value of 53 and 93 is a code, every other value is a byte sequence.     *)
(***************************************************************************)
NoOpts == [c \in OptionCodes |-> None]

\* Message::default() with the header fields the program goes on to set
DefaultMessage ==
  [opcode |-> BootRequest, xid |-> 0, flags |-> 0, chaddr |-> << >>,
   siaddr |-> UNSPECIFIED, sname |-> None, opts |-> NoOpts]

\* DhcpOptions::insert
Insert(opts, code, value) == [opts EXCEPT ![code] = Some(value)]

(***************************************************************************)
(* DhcpPxeResponder and DHCPProxyBuilder.                                  *)
(***************************************************************************)
DhcpPxeResponder(architecture, user_class, redirect_to, boot_file) ==
  [architecture |-> architecture, user_class |-> user_class,
   redirect_to |-> redirect_to, boot_file |-> boot_file]

\* add_responder that inserts at the front
add_responder_AtFront(self, architecture, user_class, redirect_to, boot_file) ==
  <<DhcpPxeResponder(architecture, user_class, redirect_to, boot_file)>> \o self

\* DHCPProxyBuilder::add_responder: push at the end
add_responder(self, architecture, user_class, redirect_to, boot_file) ==
  Append(self, DhcpPxeResponder(architecture, user_class, redirect_to, boot_file))

\* the three add_responder calls of main, in call order
MainResponderArgs ==
  << <<Some(BC), None, server_address, ipxe_efi>>,
     <<Some(Intelx86PC), None, server_address, undionly_kpxe>>,
     <<None, Some(iPXE), server_address, boot_ipxe_url>> >>

(***************************************************************************)
(* DHCPProxy::handle_packet                                                *)
(***************************************************************************)
\* the pattern without its last component, option 94
PatternMatches_NoNetworkInterface(msg) ==
  /\ msg.opcode = BootRequest
  /\ IsSome(msg.opts[OptMessageType])
  /\ IsSome(msg.opts[OptParameterRequestList])
  /\ IsSome(msg.opts[OptClassIdentifier])
  /\ IsSome(msg.opts[OptClientSystemArchitecture])

\* the tuple pattern of the first match arm: a boot request with options
\* 53, 55, 60, 93 and 94 set
PatternMatches(msg) ==
  /\ msg.opcode = BootRequest
  /\ IsSome(msg.opts[OptMessageType])
  /\ IsSome(msg.opts[OptParameterRequestList])
  /\ IsSome(msg.opts[OptClassIdentifier])
  /\ IsSome(msg.opts[OptClientSystemArchitecture])
  /\ IsSome(msg.opts[OptClientNetworkInterface])

\* the test that turns away an Offer only
MessageTypeAccepted_NotOffer(message_type) == message_type # Offer

\* message_type(opt 53) must be Discover or Request
MessageTypeAccepted(message_type) ==
  ~(message_type # Discover /\ message_type # Request)

\* the prefix test on the raw bytes, without reading them as text
ClassIdAccepted_BytePrefix(class_id) == starts_with(class_id, PXEClient)

\* class_id(opt 60) must start with PXEClient
ClassIdAccepted(class_id) ==
  starts_with(from_utf8_or_default(class_id), PXEClient)

\* request_user_class as the bytes of option 77, whatever they are
RequestUserClass_RawBytes(user_class) ==
  IF IsSome(user_class) THEN Unwrap(user_class) ELSE << >>

\* request_user_class: the text of option 77, or "" when it is not set or
\* not UTF-8
RequestUserClass(user_class) ==
  IF IsSome(user_class) THEN from_utf8_or_default(Unwrap(user_class))
  ELSE << >>

\* the match with || for && in the arm of a responder with both filters
ResponderMatches_EitherFilter(responder, request_architecture, request_user_class) ==
  CASE responder.architecture = None /\ responder.user_class = None -> TRUE
    [] responder.architecture # None /\ responder.user_class = None ->
         Unwrap(responder.architecture) = request_architecture
    [] responder.architecture = None /\ responder.user_class # None ->
         Unwrap(responder.user_class) = request_user_class
    [] responder.architecture # None /\ responder.user_class # None ->
         \/ Unwrap(responder.architecture) = request_architecture
         \/ Unwrap(responder.user_class) = request_user_class

\* one arm of the match on (responder.architecture, responder.user_class)
ResponderMatches(responder, request_architecture, request_user_class) ==
  CASE responder.architecture = None /\ responder.user_class = None -> TRUE
    [] responder.architecture # None /\ responder.user_class = None ->
         Unwrap(responder.architecture) = request_architecture
    [] responder.architecture = None /\ responder.user_class # None ->
         Unwrap(responder.user_class) = request_user_class
    [] responder.architecture # None /\ responder.user_class # None ->
         /\ Unwrap(responder.architecture) = request_architecture
         /\ Unwrap(responder.user_class) = request_user_class

\* the loop with a break at the first responder that matches
RECURSIVE ScanResponders_FirstMatch(_, _, _, _)
ScanResponders_FirstMatch(rs, request_architecture, request_user_class, offer) ==
  IF rs = << >> THEN offer
  ELSE LET responder == Head(rs)
       IN IF ResponderMatches(responder, request_architecture, request_user_class)
          THEN [redirect_to |-> responder.redirect_to,
                boot_file |-> responder.boot_file]
          ELSE ScanResponders_FirstMatch(Tail(rs), request_architecture,
                                         request_user_class, offer)

\* the for loop over the responders: offer is (redirect_to, boot_file) so far
RECURSIVE ScanResponders(_, _, _, _)
ScanResponders(rs, request_architecture, request_user_class, offer) ==
  IF rs = << >> THEN offer
  ELSE LET responder == Head(rs)
       IN ScanResponders(Tail(rs), request_architecture, request_user_class,
            IF ResponderMatches(responder, request_architecture, request_user_class)
            THEN [redirect_to |-> responder.redirect_to,
                  boot_file |-> responder.boot_file]
            ELSE offer)

\* a selection that takes the address of the last matching responder and
\* the boot file of the first one
SelectOffer_MixedRules(rs, request_architecture, request_user_class) ==
  LET zero == [redirect_to |-> UNSPECIFIED, boot_file |-> << >>]
  IN [redirect_to |->
        ScanResponders(rs, request_architecture, request_user_class,
                       zero).redirect_to,
      boot_file |->
        ScanResponders_FirstMatch(rs, request_architecture,
                                  request_user_class, zero).boot_file]

\* let mut redirect_to = 0.0.0.0; let mut boot_file = ""; then the loop
SelectOffer(rs, request_architecture, request_user_class) ==
  ScanResponders(rs, request_architecture, request_user_class,
                 [redirect_to |-> UNSPECIFIED, boot_file |-> << >>])

\* the vendor_options vector without the last push
VendorOptions_NoEnd == <<6, 8>> \o <<0, 0, 0, 0, 0, 0, 0, 0>>

\* the vendor_options vector
VendorOptions == <<6, 8>> \o <<0, 0, 0, 0, 0, 0, 0, 0>> \o <<255>>

\* the response without .set_xid(message.xid())
BuildResponse_NoSetXid(msg, redirect_to, boot_file) ==
  LET header == [DefaultMessage EXCEPT
                   !.flags = BROADCAST,
                   !.chaddr = msg.chaddr,
                   !.siaddr = redirect_to,
                   !.sname = Some(Ipv4ToString(redirect_to)),
                   !.opcode = BootReply]
      o1 == Insert(header.opts, OptMessageType, Offer)
      o2 == Insert(o1, OptVendorExtensions, VendorOptions)
      o3 == Insert(o2, OptServerIdentifier, redirect_to)
      o4 == Insert(o3, OptClassIdentifier, PXEClient)
      o5 == Insert(o4, OptBootfileName, boot_file)
  IN [header EXCEPT !.opts = o5]

\* the response built from the request and the selected offer
BuildResponse(msg, redirect_to, boot_file) ==
  LET header == [DefaultMessage EXCEPT
                   !.flags = BROADCAST,
                   !.chaddr = msg.chaddr,
                   !.xid = msg.xid,
                   !.siaddr = redirect_to,
                   !.sname = Some(Ipv4ToString(redirect_to)),
                   !.opcode = BootReply]
      o1 == Insert(header.opts, OptMessageType, Offer)
      o2 == Insert(o1, OptVendorExtensions, VendorOptions)
      o3 == Insert(o2, OptServerIdentifier, redirect_to)
      o4 == Insert(o3, OptClassIdentifier, PXEClient)
      o5 == Insert(o4, OptBootfileName, boot_file)
  IN [header EXCEPT !.opts = o5]

\* handle_packet that gives no response when the selection ends on 0.0.0.0
handle_packet_NoReplyWithoutMatch(msg, rs) ==
  IF PatternMatches(msg)
  THEN LET message_type == Unwrap(msg.opts[OptMessageType])
           class_id == Unwrap(msg.opts[OptClassIdentifier])
           request_architecture == Unwrap(msg.opts[OptClientSystemArchitecture])
       IN IF ~MessageTypeAccepted(message_type) THEN None
          ELSE IF ~ClassIdAccepted(class_id) THEN None
          ELSE LET request_user_class == RequestUserClass(msg.opts[OptUserClass])
                   offer == SelectOffer(rs, request_architecture, request_user_class)
               IN IF offer.redirect_to = UNSPECIFIED THEN None
                  ELSE Some(BuildResponse(msg, offer.redirect_to, offer.boot_file))
  ELSE None

handle_packet(msg, rs) ==
  IF PatternMatches(msg)
  THEN LET message_type == Unwrap(msg.opts[OptMessageType])
           class_id == Unwrap(msg.opts[OptClassIdentifier])
           request_architecture == Unwrap(msg.opts[OptClientSystemArchitecture])
       IN IF ~MessageTypeAccepted(message_type) THEN None
          ELSE IF ~ClassIdAccepted(class_id) THEN None
          ELSE LET request_user_class == RequestUserClass(msg.opts[OptUserClass])
                   offer == SelectOffer(rs, request_architecture, request_user_class)
               IN Some(BuildResponse(msg, offer.redirect_to, offer.boot_file))
  ELSE None

(***************************************************************************)
(* Inputs of handle_packet: decoded messages and responder tables.         *)
(***************************************************************************)
\* "PXEClientXYZ"
PXEClientXYZ == PXEClient \o <<88, 89, 90>>

\* "Not-PXEClient"
NotPXEClient == <<78, 111, 116, 45>> \o PXEClient

\* "PXEClien", one byte short of the prefix
PXEClien == SubSeq(PXEClient, 1, 8)

\* "PXEClient" followed by a byte that no UTF-8 text contains
PXEClientBadUtf8 == PXEClient \o <<255>>

\* "PXEClient" followed by U+00E9 in UTF-8
PXEClientAccent == PXEClient \o <<195, 169>>

MacA == <<0, 17, 34, 51, 68, 85>>

MacB == <<222, 173, 190, 239, 0, 1>>

\* 0x12345678
XidA == 18 * 16777216 + 52 * 65536 + 86 * 256 + 120

\* 0x01234567
XidB == 1 * 16777216 + 35 * 65536 + 69 * 256 + 103

Xids == {XidA, XidB}

Macs == {MacA, MacB}

PRL == Some(<<OptVendorExtensions, OptClassIdentifier, OptBootfileName>>)

NIF == Some(<<1, 2, 1>>)

MessageTypeOpts ==
  {None} \cup {Some(t) : t \in {Discover, Offer, Request} \cup OtherMessageTypes}

ParameterRequestListOpts == {None, PRL}

ClassIds ==
  {PXEClient, PXEClientXYZ, NotPXEClient, PXEClien, << >>, PXEClientBadUtf8,
   PXEClientAccent}

ClassIdentifierOpts == {None} \cup {Some(c) : c \in ClassIds}

ArchitectureOpts ==
  {None} \cup {Some(a) : a \in {Intelx86PC, BC, OtherArchitecture}}

NetworkInterfaceOpts == {None, NIF}

UserClassOpts == {None} \cup {Some(u) : u \in {iPXE, << >>, <<255>>}}

RequestOpts(mt, prl, cid, uc, arch, nif) ==
  [NoOpts EXCEPT ![OptMessageType] = mt,
                 ![OptParameterRequestList] = prl,
                 ![OptClassIdentifier] = cid,
                 ![OptUserClass] = uc,
                 ![OptClientSystemArchitecture] = arch,
                 ![OptClientNetworkInterface] = nif]

RequestMessage(opcode, xid, chaddr, opts) ==
  [DefaultMessage EXCEPT !.opcode = opcode, !.xid = xid, !.chaddr = chaddr,
                         !.opts = opts]

\* every combination of the fields handle_packet reads
AllMessages ==
  {RequestMessage(op, xid, mac, RequestOpts(mt, prl, cid, uc, arch, nif)) :
     op \in {BootRequest, BootReply}, xid \in Xids, mac \in Macs,
     mt \in MessageTypeOpts, prl \in ParameterRequestListOpts,
     cid \in ClassIdentifierOpts, uc \in UserClassOpts,
     arch \in ArchitectureOpts, nif \in NetworkInterfaceOpts}

\* PXE requests that differ in what the selection reads
PxeRequests ==
  {RequestMessage(BootRequest, XidA, MacA,
     RequestOpts(Some(Discover), PRL, Some(PXEClient), uc, arch, NIF)) :
     uc \in UserClassOpts, arch \in ArchitectureOpts \ {None}}

\* the table main builds
MainResponders ==
  LET Add(self, args) == add_responder(self, args[1], args[2], args[3], args[4])
  IN Add(Add(Add(<< >>, MainResponderArgs[1]), MainResponderArgs[2]),
         MainResponderArgs[3])

OtherAddress == <<192, 168, 1, 20>>

Rules ==
  {DhcpPxeResponder(a, u, o[1], o[2]) :
     a \in {None, Some(Intelx86PC), Some(BC)},
     u \in {None, Some(iPXE)},
     o \in {<<server_address, undionly_kpxe>>, <<OtherAddress, ipxe_efi>>}}

\* every table of at most MaxRules rules
BoundedTables == UNION {[1..n -> Rules] : n \in 0..MaxRules}

\* rules whose user class filter is absent, "" or "iPXE"
UserClassRules ==
  {DhcpPxeResponder(a, u, o[1], o[2]) :
     a \in {None, Some(BC)},
     u \in {None, Some(<< >>), Some(iPXE)},
     o \in {<<server_address, undionly_kpxe>>, <<OtherAddress, ipxe_efi>>}}

\* every table of at most MaxClassRules of them
UserClassTables == UNION {[1..n -> UserClassRules] : n \in 0..MaxClassRules}

(***************************************************************************)
(* handle_packet on its own: one call on one message and one table.        *)
(***************************************************************************)
IdleLoop ==
  /\ builder = << >>
  /\ socket = "none"
  /\ buf = << >>
  /\ valid_bytes = 0
  /\ received = None
  /\ response_buffer = << >>
  /\ err = None
  /\ wire = << >>
  /\ classified = << >>

InitPacket ==
  /\ pc = "call"
  /\ \/ /\ message \in {Some(m) : m \in AllMessages}
        /\ responders \in {MainResponders, << >>}
     \/ /\ message \in {Some(m) : m \in PxeRequests}
        /\ responders \in BoundedTables
     \/ /\ message \in {Some(m) : m \in PxeRequests}
        /\ responders \in UserClassTables
  /\ response = None
  /\ IdleLoop

CallHandlePacket ==
  /\ pc = "call"
  /\ response' = handle_packet(Unwrap(message), responders)
  /\ pc' = "returned"
  /\ UNCHANGED <<builder, socket, responders, buf, valid_bytes, received,
                 message, response_buffer, err, wire, classified>>

NextPacket == CallHandlePacket

SpecPacket == InitPacket /\ [][NextPacket]_vars

(***************************************************************************)
(* dhcproto's wire format (Encodable / Decodable for Message), restricted  *)
(* to the header fields of the Message record above, in wire order:        *)
(*   op(1) hlen(1) xid(4) flags(2) siaddr(4) chaddr(16) sname(64) magic(4) *)
(* followed by the options as code, length, payload and the end marker.    *)
(* htype, hops, secs, ciaddr, yiaddr, giaddr and file are left out: the    *)
(* program neither reads nor sets them.                                    *)
(***************************************************************************)
MAGIC == <<99, 130, 83, 99>>

RECURSIVE Zeros(_)
Zeros(n) == IF n <= 0 THEN << >> ELSE <<0>> \o Zeros(n - 1)

\* a field of fixed width: the bytes, zero padded
Padded(bytes, width) == bytes \o Zeros(width - Len(bytes))

BE16(x) == <<x \div 256, x % 256>>

BE32(x) == <<x \div 16777216, (x \div 65536) % 256, (x \div 256) % 256, x % 256>>

FromBE16(b) == b[1] * 256 + b[2]

FromBE32(b) == b[1] * 16777216 + b[2] * 65536 + b[3] * 256 + b[4]

HeaderLen == 1 + 1 + 4 + 2 + 4 + 16 + 64 + 4

\* the payload of an option value
OptPayload(code, value) ==
  IF code = OptMessageType THEN <<value>>
  ELSE IF code = OptClientSystemArchitecture THEN BE16(value)
  ELSE value

\* the value of an option payload
OptValue(code, payload) ==
  IF code = OptMessageType THEN payload[1]
  ELSE IF code = OptClientSystemArchitecture THEN FromBE16(payload)
  ELSE payload

\* the length a payload of this code must have, 0 for any length
OptFixedLen(code) ==
  IF code = OptMessageType THEN 1
  ELSE IF code = OptClientSystemArchitecture THEN 2
  ELSE IF code = OptClientNetworkInterface THEN 3
  ELSE IF code = OptServerIdentifier THEN 4
  ELSE 0

\* an encoding that leaves out the options whose payload is empty
RECURSIVE EncodeOpts_OmitsEmpty(_, _)
EncodeOpts_OmitsEmpty(opts, codes) ==
  IF codes = {} THEN << >>
  ELSE LET c == CHOOSE x \in codes : \A y \in codes : x <= y
           one == IF IsSome(opts[c]) /\ OptPayload(c, Unwrap(opts[c])) # << >>
                  THEN LET payload == OptPayload(c, Unwrap(opts[c]))
                       IN <<c, Len(payload)>> \o payload
                  ELSE << >>
       IN one \o EncodeOpts_OmitsEmpty(opts, codes \ {c})

RECURSIVE EncodeOpts(_, _)
EncodeOpts(opts, codes) ==
  IF codes = {} THEN << >>
  ELSE LET c == CHOOSE x \in codes : \A y \in codes : x <= y
           one == IF IsSome(opts[c])
                  THEN LET payload == OptPayload(c, Unwrap(opts[c]))
                       IN <<c, Len(payload)>> \o payload
                  ELSE << >>
       IN one \o EncodeOpts(opts, codes \ {c})

\* Message::encode into a fresh Vec<u8>
Encode(msg) ==
  <<msg.opcode, Len(msg.chaddr)>> \o BE32(msg.xid) \o BE16(msg.flags)
    \o msg.siaddr \o Padded(msg.chaddr, 16)
    \o Padded(IF IsSome(msg.sname) THEN Unwrap(msg.sname) ELSE << >>, 64)
    \o MAGIC \o EncodeOpts(msg.opts, OptionCodes) \o <<255>>

\* the bytes of a NUL padded field up to its first NUL
RECURSIVE UntilNul(_)
UntilNul(bytes) ==
  IF bytes = << >> \/ bytes[1] = 0 THEN << >>
  ELSE <<bytes[1]>> \o UntilNul(Tail(bytes))

\* DhcpOptions::decode from position i: the options read, and whether the
\* option area was well formed up to its end marker
RECURSIVE DecodeOpts(_, _, _)
DecodeOpts(bytes, i, opts) ==
  IF i > Len(bytes) THEN [opts |-> opts, wellformed |-> FALSE]
  ELSE IF bytes[i] = 255 THEN [opts |-> opts, wellformed |-> TRUE]
  ELSE IF bytes[i] = 0 THEN DecodeOpts(bytes, i + 1, opts)
  ELSE IF i + 1 > Len(bytes) THEN [opts |-> opts, wellformed |-> FALSE]
  ELSE LET code == bytes[i]
           len == bytes[i + 1]
           payload == SubSeq(bytes, i + 2, i + 1 + len)
       IN IF i + 1 + len > Len(bytes)
            THEN [opts |-> opts, wellformed |-> FALSE]
          ELSE IF OptFixedLen(code) # 0 /\ len # OptFixedLen(code)
            THEN [opts |-> opts, wellformed |-> FALSE]
          ELSE DecodeOpts(bytes, i + 2 + len,
                 IF code \in OptionCodes
                 THEN Insert(opts, code, OptValue(code, payload))
                 ELSE opts)

DecodeErr == [ok |-> FALSE]

DecodeOk(msg) == [ok |-> TRUE, msg |-> msg]

\* the header fields of a datagram that holds a whole header
DecodeHeader(bytes, opts) ==
  LET sname == UntilNul(SubSeq(bytes, 29, 92))
  IN [opcode |-> bytes[1],
      xid |-> FromBE32(SubSeq(bytes, 3, 6)),
      flags |-> FromBE16(SubSeq(bytes, 7, 8)),
      siaddr |-> SubSeq(bytes, 9, 12),
      chaddr |-> SubSeq(bytes, 13, 12 + bytes[2]),
      sname |-> IF sname = << >> THEN None ELSE Some(sname),
      opts |-> opts]

\* Message::decode: the results it can give.  A datagram too short for the
\* header is an error.  A malformed option area is an error in a decoder
\* that is strict about options and ends the options read so far in one that
\* is lenient (dhcproto's behaviour depends on its version).
DecodeResults(bytes) ==
  IF Len(bytes) < HeaderLen THEN {DecodeErr}
  ELSE LET o == DecodeOpts(bytes, HeaderLen + 1, NoOpts)
           msg == DecodeHeader(bytes, o.opts)
       IN IF o.wellformed THEN {DecodeOk(msg)}
          ELSE {DecodeErr, DecodeOk(msg)}

(***************************************************************************)
(* The datagrams the listener receives.                                    *)
(***************************************************************************)
\* a PXE Discover of a BIOS client
PxeDiscover ==
  RequestMessage(BootRequest, XidA, MacA,
    RequestOpts(Some(Discover), PRL, Some(PXEClient), None, Some(Intelx86PC), NIF))

\* a PXE Request of an iPXE client on UEFI
PxeRequestIpxe ==
  RequestMessage(BootRequest, XidB, MacB,
    RequestOpts(Some(Request), PRL, Some(PXEClientXYZ), Some(iPXE), Some(BC), NIF))

\* a PXE Discover of an architecture main has no rule for
PxeDiscoverX64 ==
  RequestMessage(BootRequest, XidB, MacA,
    RequestOpts(Some(Discover), PRL, Some(PXEClient), None, Some(OtherArchitecture), NIF))

\* PxeDiscover with one of the six conditions of the gate taken away
RemovalMessages ==
  {[PxeDiscover EXCEPT !.opcode = BootReply]}
    \cup {[PxeDiscover EXCEPT !.opts[c] = None] :
            c \in {OptMessageType, OptParameterRequestList, OptClassIdentifier,
                   OptClientSystemArchitecture, OptClientNetworkInterface}}

\* PxeDiscover with another message type
MessageTypeMessages ==
  {[PxeDiscover EXCEPT !.opts[OptMessageType] = Some(t)] : t \in {Offer} \cup OtherMessageTypes}

\* PxeDiscover with another class identifier
ClassIdMessages ==
  {[PxeDiscover EXCEPT !.opts[OptClassIdentifier] = Some(c)] :
     c \in {NotPXEClient, PXEClientBadUtf8}}

LoopMessages ==
  {PxeDiscover, PxeRequestIpxe, PxeDiscoverX64} \cup RemovalMessages
    \cup MessageTypeMessages \cup ClassIdMessages

\* datagrams no decoder accepts: empty, and cut inside the header
TruncatedDatagrams == {<< >>, SubSeq(Encode(PxeDiscover), 1, HeaderLen - 1)}

\* a PXE Discover whose last option claims more bytes than the datagram has
BadLengthDatagram ==
  LET d == Encode(PxeDiscover)
  IN SubSeq(d, 1, Len(d) - 3)

\* a PXE Discover without the end marker
NoEndDatagram ==
  LET d == Encode(PxeDiscover)
  IN SubSeq(d, 1, Len(d) - 1)

Datagrams ==
  {Encode(m) : m \in LoopMessages} \cup TruncatedDatagrams
    \cup {BadLengthDatagram, NoEndDatagram}

(***************************************************************************)
(* The supervisor loop of main, DHCPProxyBuilder::build / DHCPProxy::new   *)
(* and DHCPProxy::run.  pc is the position of the DHCP task:               *)
(*   "start"    top of the supervisor loop                                 *)
(*   "add"      in the chain of add_responder calls                        *)
(*   "build"    at build().await                                           *)
(*   "run"      at dhcp_proxy.run().await, before its loop                 *)
(*   "recv"     at socket.recv(&mut buf).await                             *)
(*   "send"     at socket.send_to(...).await                               *)
(*   "failed"   in an Err arm of the supervisor's match                    *)
(*   "sleep"    at sleep(5 s).await                                        *)
(*   "panicked" the task has ended by a panic                              *)
(***************************************************************************)
BUF_LEN == 1500

Min(a, b) == IF a <= b THEN a ELSE b

Init ==
  /\ pc = "start"
  /\ builder = << >>
  /\ socket = "none"
  /\ responders = << >>
  /\ buf = << >>
  /\ valid_bytes = 0
  /\ received = None
  /\ message = None
  /\ response = None
  /\ response_buffer = << >>
  /\ err = None
  /\ wire = << >>
  /\ classified = << >>

\* the proxy (socket, responders, buf) and the locals of run are dropped
DropProxy ==
  /\ socket' = "none"
  /\ responders' = << >>
  /\ buf' = << >>
  /\ valid_bytes' = 0
  /\ response' = None
  /\ response_buffer' = << >>

\* loop { info!("Starting DHCP Server"); DHCPProxyBuilder::new()
SupervisorStart ==
  /\ pc = "start"
  /\ builder' = << >>
  /\ received' = None
  /\ message' = None
  /\ pc' = "add"
  /\ UNCHANGED <<socket, responders, buf, valid_bytes, response,
                 response_buffer, err, wire, classified>>

\* the next .add_responder(...) of the chain
AddResponder ==
  /\ pc = "add"
  /\ Len(builder) < Len(MainResponderArgs)
  /\ LET args == MainResponderArgs[Len(builder) + 1]
     IN builder' = add_responder(builder, args[1], args[2], args[3], args[4])
  /\ pc' = IF Len(builder') = Len(MainResponderArgs) THEN "build" ELSE "add"
  /\ UNCHANGED <<socket, responders, buf, valid_bytes, received, message,
                 response, response_buffer, err, wire, classified>>

\* build(): DHCPProxy::new binds, sets broadcast and takes the responders;
\* buf is 1500 zero bytes, kept here as the bytes written so far
BuildOk ==
  /\ pc = "build"
  /\ socket' = "bound"
  /\ responders' = builder
  /\ builder' = << >>
  /\ buf' = << >>
  /\ pc' = "run"
  /\ UNCHANGED <<valid_bytes, received, message, response, response_buffer,
                 err, wire, classified>>

\* UdpSocket::bind(...).await? fails: build returns Err
BuildBindError ==
  /\ pc = "build"
  /\ builder' = << >>
  /\ err' = Some("bind")
  /\ pc' = "failed"
  /\ UNCHANGED <<socket, responders, buf, valid_bytes, received, message,
                 response, response_buffer, wire, classified>>

\* socket.set_broadcast(true).unwrap() fails: the task panics
BuildSetBroadcastPanic ==
  /\ pc = "build"
  /\ builder' = << >>
  /\ pc' = "panicked"
  /\ UNCHANGED <<socket, responders, buf, valid_bytes, received, message,
                 response, response_buffer, err, wire, classified>>

\* run: println!("DHCP Listening on: {}", socket.local_addr()?)
RunStart ==
  /\ pc = "run"
  /\ pc' = "recv"
  /\ UNCHANGED <<builder, socket, responders, buf, valid_bytes, received,
                 message, response, response_buffer, err, wire, classified>>

\* socket.local_addr()? fails: run returns Err
RunLocalAddrError ==
  /\ pc = "run"
  /\ DropProxy
  /\ err' = Some("local_addr")
  /\ pc' = "failed"
  /\ UNCHANGED <<builder, received, message, wire, classified>>

\* the whole of buf, with what earlier datagrams left behind the bytes read
data_WholeBuffer(b, n) == b

\* let data = &buf[..valid_bytes]
data(b, n) == SubSeq(b, 1, n)

\* a loop that takes the next datagram while a reply is still to be sent
Recv_WhileSending(d) ==
  /\ pc \in {"recv", "send"}
  /\ Len(wire) < MaxSent
  /\ Len(classified) < MaxClassified
  /\ received' = Some(d)
  /\ LET n == Min(Len(d), BUF_LEN)
         filled == SubSeq(d, 1, n) \o SubSeq(buf, n + 1, Len(buf))
     IN \E r \in DecodeResults(data(filled, n)) :
          IF r.ok
          THEN LET resp == handle_packet(r.msg, responders)
               IN /\ buf' = filled
                  /\ valid_bytes' = n
                  /\ message' = Some(r.msg)
                  /\ response' = resp
                  /\ response_buffer' =
                       IF IsSome(resp) THEN Encode(Unwrap(resp)) ELSE << >>
                  /\ pc' = IF IsSome(resp) THEN "send" ELSE "recv"
                  /\ classified' = IF IsSome(resp)
                                   THEN Append(classified, r.msg)
                                   ELSE classified
                  /\ UNCHANGED <<socket, responders>>
          ELSE /\ message' = None
               /\ DropProxy
               /\ pc' = "panicked"
               /\ UNCHANGED classified
  /\ UNCHANGED <<builder, err, wire>>

\* one turn of run's loop, from the completion of recv to the next await:
\* recv's result, decode(...).unwrap(), handle_packet and the encoding of
\* the response
Recv(d) ==
  /\ pc = "recv"
  /\ Len(wire) < MaxSent
  /\ Len(classified) < MaxClassified
  /\ received' = Some(d)
  /\ LET n == Min(Len(d), BUF_LEN)
         filled == SubSeq(d, 1, n) \o SubSeq(buf, n + 1, Len(buf))
     IN \E r \in DecodeResults(data(filled, n)) :
          IF r.ok
          THEN LET resp == handle_packet(r.msg, responders)
               IN /\ buf' = filled
                  /\ valid_bytes' = n
                  /\ message' = Some(r.msg)
                  /\ response' = resp
                  /\ response_buffer' =
                       IF IsSome(resp) THEN Encode(Unwrap(resp)) ELSE << >>
                  /\ pc' = IF IsSome(resp) THEN "send" ELSE "recv"
                  /\ classified' = IF IsSome(resp)
                                   THEN Append(classified, r.msg)
                                   ELSE classified
                  /\ UNCHANGED <<socket, responders>>
          ELSE /\ message' = None
               /\ DropProxy
               /\ pc' = "panicked"
               /\ UNCHANGED classified
  /\ UNCHANGED <<builder, err, wire>>

\* socket.recv(&mut buf).await? fails: run returns Err
RecvError ==
  /\ pc = "recv"
  /\ DropProxy
  /\ err' = Some("recv")
  /\ pc' = "failed"
  /\ UNCHANGED <<builder, received, message, wire, classified>>

\* "255.255.255.255:68", the target of send_to
BroadcastPort68 == [addr |-> <<255, 255, 255, 255>>, port |-> 68]

\* a send that puts the datagram on the wire twice
SendOk_Twice ==
  /\ pc = "send"
  /\ wire' = Append(Append(wire, [request |-> Unwrap(message),
                                  datagram |-> response_buffer,
                                  to |-> BroadcastPort68]),
                    [request |-> Unwrap(message),
                     datagram |-> response_buffer,
                     to |-> BroadcastPort68])
  /\ response' = None
  /\ response_buffer' = << >>
  /\ pc' = "recv"
  /\ UNCHANGED <<builder, socket, responders, buf, valid_bytes, received,
                 message, err, classified>>

\* socket.send_to(...).await succeeds: the next turn of the loop
SendOk ==
  /\ pc = "send"
  /\ wire' = Append(wire, [request |-> Unwrap(message),
                           datagram |-> response_buffer,
                           to |-> BroadcastPort68])
  /\ response' = None
  /\ response_buffer' = << >>
  /\ pc' = "recv"
  /\ UNCHANGED <<builder, socket, responders, buf, valid_bytes, received,
                 message, err, classified>>

\* a send failure that is dropped: the loop goes on to the next recv
SendError_Swallowed ==
  /\ pc = "send"
  /\ response' = None
  /\ response_buffer' = << >>
  /\ pc' = "recv"
  /\ UNCHANGED <<builder, socket, responders, buf, valid_bytes, received,
                 message, err, wire, classified>>

\* socket.send_to(...).await? fails: run returns Err
SendError ==
  /\ pc = "send"
  /\ DropProxy
  /\ err' = Some("send")
  /\ pc' = "failed"
  /\ UNCHANGED <<builder, received, message, wire, classified>>

\* the Err arms of the supervisor's match: error!(...), then
\* info!("Restarting DHCP Server in 5 seconds")
SupervisorReport ==
  /\ pc = "failed"
  /\ err' = None
  /\ pc' = "sleep"
  /\ UNCHANGED <<builder, socket, responders, buf, valid_bytes, received,
                 message, response, response_buffer, wire, classified>>

\* sleep(5 s) is over: the next turn of the supervisor loop
SleepDone ==
  /\ pc = "sleep"
  /\ pc' = "start"
  /\ UNCHANGED <<builder, socket, responders, buf, valid_bytes, received,
                 message, response, response_buffer, err, wire, classified>>

Next ==
  \/ SupervisorStart
  \/ AddResponder
  \/ BuildOk
  \/ BuildBindError
  \/ BuildSetBroadcastPanic
  \/ RunStart
  \/ RunLocalAddrError
  \/ \E d \in Datagrams : Recv(d)
  \/ RecvError
  \/ SendOk
  \/ SendError
  \/ SupervisorReport
  \/ SleepDone

Spec == Init /\ [][Next]_vars

(***************************************************************************)
(* The listener and the calls of handle_packet on their own, side by side. *)
(***************************************************************************)
InitAll == Init \/ InitPacket

NextAll == Next \/ NextPacket

SpecAll == InitAll /\ [][NextAll]_vars

(***************************************************************************)
(* Properties.                                                             *)
(***************************************************************************)
\* the options a PXE request must carry
RequiredOptions ==
  {OptMessageType, OptParameterRequestList, OptClassIdentifier,
   OptClientSystemArchitecture, OptClientNetworkInterface}

\* opcode BootRequest and the five options present
PassesPresenceGate(m) ==
  m.opcode = BootRequest /\ \A c \in RequiredOptions : m.opts[c] # None

\* the payload, read as text, begins with "PXEClient"
TextStartsWithPXEClient(c) ==
  /\ Utf8Valid(c)
  /\ Len(c) >= Len(PXEClient)
  /\ \A i \in 1..Len(PXEClient) : c[i] = PXEClient[i]

\* the classification gate: the presence gate, a Discover or a Request, and
\* a class identifier that begins with "PXEClient"
Classified(m) ==
  /\ PassesPresenceGate(m)
  /\ m.opts[OptMessageType] \in {Some(Discover), Some(Request)}
  /\ TextStartsWithPXEClient(Unwrap(m.opts[OptClassIdentifier]))

\* handle_packet has been applied to message, and response is its result
Handled == pc \in {"returned", "send"}

\* C1: a reply is produced only for a boot request that carries options 53,
\* 55, 60, 93 and 94; taking any one of the six away from a request that is
\* answered leaves it unanswered; every reply on the wire answers a request
\* that passed this gate.
C1_ReplyOnlyForGatedRequest ==
  /\ IsSome(response) =>
       /\ IsSome(message)
       /\ PassesPresenceGate(Unwrap(message))
       /\ handle_packet([Unwrap(message) EXCEPT !.opcode = BootReply],
                        responders) = None
       /\ \A c \in RequiredOptions :
            handle_packet([Unwrap(message) EXCEPT !.opts[c] = None],
                          responders) = None
  /\ pc = "send" => IsSome(response) /\ response_buffer # << >>
  /\ \A i \in 1..Len(wire) : PassesPresenceGate(wire[i].request)

\* a reply is on the wire and the listener is about to send the next one
C1_Witness ==
  /\ pc = "send"
  /\ Len(wire) = 1
  /\ IsSome(response)

\* C2: every request that passes the classification gate gets a reply, and
\* the listener hands the encoded reply to send, whatever the table holds.
C2_ClassifiedRequestIsAnswered ==
  [][(/\ \/ pc = "call"
         \/ pc = "recv" /\ pc' # "failed"
      /\ IsSome(message')
      /\ Classified(Unwrap(message')))
     => /\ IsSome(response')
        /\ pc' \in {"returned", "send"}
        /\ pc' = "send" => response_buffer' = Encode(Unwrap(response'))]_vars

\* a rule matches a request: each filter the rule has equals what the
\* request asks for
RuleMatches(rule, architecture, user_class) ==
  /\ rule.architecture # None => Unwrap(rule.architecture) = architecture
  /\ rule.user_class # None => Unwrap(rule.user_class) = user_class

\* the indices of the rules that match the request m
MatchingRules(rs, m) ==
  {i \in 1..Len(rs) :
     RuleMatches(rs[i], Unwrap(m.opts[OptClientSystemArchitecture]),
                 RequestUserClass(m.opts[OptUserClass]))}

\* no rule of the table matches the request
NoRuleMatches(rs, m) == MatchingRules(rs, m) = {}

\* the listener is about to send the reply to a request that no rule of the
\* table matches
C2_Witness ==
  /\ pc = "send"
  /\ Len(responders) > 0
  /\ NoRuleMatches(responders, Unwrap(message))
  /\ response_buffer # << >>


Max(S) == CHOOSE x \in S : \A y \in S : y <= x

\* C3: the reply carries the target address and the boot file of the
\* highest-index rule that matches the request; with the rules of main, an
\* Intelx86PC request of user class "iPXE" gets the third rule's boot file.
C3_LastMatchWins ==
  (Handled /\ IsSome(response)) =>
    LET m == Unwrap(message)
        r == Unwrap(response)
        matching == MatchingRules(responders, m)
    IN /\ matching # {} =>
            /\ r.siaddr = responders[Max(matching)].redirect_to
            /\ r.opts[OptBootfileName] = Some(responders[Max(matching)].boot_file)
       /\ (/\ responders = MainResponders
           /\ m.opts[OptClientSystemArchitecture] = Some(Intelx86PC)
           /\ m.opts[OptUserClass] = Some(iPXE))
          => r.opts[OptBootfileName] = Some(boot_ipxe_url)

\* an Intelx86PC request of user class "iPXE" has been answered from the
\* table of main, where the second and the third rule match it
C3_Witness ==
  /\ pc = "returned"
  /\ IsSome(response)
  /\ responders = MainResponders
  /\ Unwrap(message).opts[OptClientSystemArchitecture] = Some(Intelx86PC)
  /\ Unwrap(message).opts[OptUserClass] = Some(iPXE)
  /\ MatchingRules(responders, Unwrap(message)) = {2, 3}

\* C4: a request that no rule matches is answered with 0.0.0.0 in siaddr and
\* in option 54 and with an empty option 67.
C4_NoMatchGivesZeroOffer ==
  (Handled /\ IsSome(response) /\ NoRuleMatches(responders, Unwrap(message))) =>
    /\ Unwrap(response).siaddr = <<0, 0, 0, 0>>
    /\ Unwrap(response).opts[OptServerIdentifier] = Some(<<0, 0, 0, 0>>)
    /\ Unwrap(response).opts[OptBootfileName] = Some(<< >>)

\* a request has been answered from a table of three rules none of which
\* matches it
C4_Witness ==
  /\ pc = "returned"
  /\ IsSome(response)
  /\ Len(responders) = 3
  /\ NoRuleMatches(responders, Unwrap(message))

\* the request is a PXE request but for its message type
ValidButMessageType(m) ==
  /\ PassesPresenceGate(m)
  /\ TextStartsWithPXEClient(Unwrap(m.opts[OptClassIdentifier]))

\* C8: a request of a message type other than Discover and Request gets no
\* reply; a Discover and a Request that are valid otherwise get one.
C8_OnlyDiscoverAndRequestAnswered ==
  Handled =>
    LET m == Unwrap(message)
    IN /\ m.opts[OptMessageType] \notin {Some(Discover), Some(Request)}
            => response = None
       /\ (/\ ValidButMessageType(m)
           /\ m.opts[OptMessageType] \in {Some(Discover), Some(Request)})
          => IsSome(response)

\* a request that is valid but for its message type, an Ack, got no reply
C8_Witness ==
  /\ pc = "returned"
  /\ ValidButMessageType(Unwrap(message))
  /\ Unwrap(message).opts[OptMessageType] = Some(5)
  /\ response = None

\* the request is a PXE request but for its class identifier
ValidButClassId(m) ==
  /\ PassesPresenceGate(m)
  /\ m.opts[OptMessageType] \in {Some(Discover), Some(Request)}

\* C9: a reply is produced only when the class identifier, read as text,
\* begins with "PXEClient"; a request that is valid otherwise and whose
\* class identifier does begin with it gets a reply.
C9_ClassIdIsTextPrefix ==
  Handled =>
    LET m == Unwrap(message)
    IN /\ IsSome(response)
            => TextStartsWithPXEClient(Unwrap(m.opts[OptClassIdentifier]))
       /\ (/\ ValidButClassId(m)
           /\ TextStartsWithPXEClient(Unwrap(m.opts[OptClassIdentifier])))
          => IsSome(response)

\* a request that is valid but for its class identifier, "Not-PXEClient",
\* got no reply
C9_Witness ==
  /\ pc = "returned"
  /\ ValidButClassId(Unwrap(message))
  /\ Unwrap(message).opts[OptClassIdentifier] = Some(NotPXEClient)
  /\ response = None

\* C10: the reply carries the xid and the chaddr of the request it answers:
\* in the response handle_packet returns, in the bytes handed to send, and
\* in every datagram on the wire.
C10_ReplyEchoesXidAndChaddr ==
  /\ (Handled /\ IsSome(response)) =>
       /\ Unwrap(response).xid = Unwrap(message).xid
       /\ Unwrap(response).chaddr = Unwrap(message).chaddr
  /\ pc = "send" =>
       /\ DecodeHeader(response_buffer, NoOpts).xid = Unwrap(message).xid
       /\ DecodeHeader(response_buffer, NoOpts).chaddr = Unwrap(message).chaddr
  /\ \A i \in 1..Len(wire) :
       /\ DecodeHeader(wire[i].datagram, NoOpts).xid = wire[i].request.xid
       /\ DecodeHeader(wire[i].datagram, NoOpts).chaddr = wire[i].request.chaddr

\* the listener is about to answer a request whose xid and chaddr differ
\* from those of the request it answered before
C10_Witness ==
  /\ pc = "send"
  /\ Len(wire) = 1
  /\ wire[1].request.xid # Unwrap(message).xid
  /\ wire[1].request.chaddr # Unwrap(message).chaddr


\* C5: a datagram that fails to decode is dropped and nothing else: the
\* listener is at recv again with its socket, nothing is sent and no error
\* is raised.
C5_DecodeFailureDropsDatagram ==
  [][(/\ pc = "recv"
      /\ pc' # "failed"
      /\ IsSome(received')
      /\ message' = None)
     => /\ pc' = "recv"
        /\ socket' = "bound"
        /\ wire' = wire
        /\ err' = None]_vars

\* C6: the DHCP task never ends, so that every fatal error of a listener is
\* followed by a restart; and a listener whose bind failed has no socket
\* and nothing to send.
C6_ListenerAlwaysRestarted ==
  /\ pc # "panicked"
  /\ err = Some("bind") => socket = "none" /\ response_buffer = << >>

\* C7: a failed send ends the run with the error in the hands of the
\* supervisor and the socket gone; without a socket nothing is received
\* and nothing is sent.
C7_SendFailureEndsRun ==
  [][/\ (pc = "send" /\ wire' = wire) =>
          /\ pc' = "failed"
          /\ err' = Some("send")
          /\ socket' = "none"
     /\ socket = "none" =>
          /\ wire' = wire
          /\ received' = received \/ received' = None]_vars

\* a send has failed and the supervisor holds the error
C7_Witness ==
  /\ pc = "failed"
  /\ err = Some("send")
  /\ IsSome(received)
  /\ socket = "none"


(***************************************************************************)
(* Order of the replies.                                                   *)
(***************************************************************************)
\* the requests of the replies on the wire, in the order of their sending
WireRequests == [i \in 1..Len(wire) |-> wire[i].request]

\* a is b with some of its elements left out
RECURSIVE IsSubsequence(_, _)
IsSubsequence(a, b) ==
  IF a = << >> THEN TRUE
  ELSE IF b = << >> THEN FALSE
  ELSE IF Head(a) = Head(b) THEN IsSubsequence(Tail(a), Tail(b))
  ELSE IsSubsequence(a, Tail(b))

\* C11: replies are emitted in the order in which their requests were
\* classified as valid, and processing is strictly sequential: a datagram
\* is received only when no reply is in progress, a request is classified
\* with its reply pending and nothing else, the reply that goes on the wire
\* is the one of the request classified last, and the requests of the
\* replies on the wire are the classified requests, in their order, less
\* those whose send failed.
C11_RepliesInClassificationOrder ==
  [][/\ (IsSome(received') /\ received' # received) =>
          /\ pc = "recv"
          /\ response = None
          /\ response_buffer = << >>
     /\ classified' # classified =>
          /\ pc = "recv"
          /\ response = None
          /\ pc' = "send"
          /\ classified' = Append(classified, Unwrap(message'))
          /\ wire' = wire
     /\ wire' # wire =>
          /\ pc = "send"
          /\ pc' = "recv"
          /\ classified' = classified
          /\ Len(wire') = Len(wire) + 1
          /\ SubSeq(wire', 1, Len(wire)) = wire
          /\ wire'[Len(wire')].request = classified[Len(classified)]
          /\ wire'[Len(wire')].datagram = response_buffer
     /\ IsSubsequence(WireRequests', classified')]_vars

\* two different requests were classified, the second after the reply of
\* the first was sent, and their replies are on the wire in that order
C11_Witness ==
  /\ Len(classified) = 2
  /\ classified[1] # classified[2]
  /\ WireRequests = classified
  /\ pc = "recv"
  /\ response_buffer = << >>


(***************************************************************************)
(* The User-Class option.                                                  *)
(***************************************************************************)
\* the requested user class of m as the specification words it: the text of
\* option 77 when it is present and decodable, the empty string otherwise
RequestedUserClass(m) ==
  LET uc == m.opts[OptUserClass]
  IN IF IsSome(uc) /\ Utf8Valid(Unwrap(uc)) THEN Unwrap(uc) ELSE << >>

\* m with option 77 replaced by uc
WithUserClass(m, uc) == [m EXCEPT !.opts[OptUserClass] = uc]

\* the indices of the rules that match architecture and the user class text
RulesMatchingText(rs, architecture, text) ==
  {i \in 1..Len(rs) : RuleMatches(rs[i], architecture, text)}

\* C12: option 77 is optional: the same message with option 77 absent,
\* present or undecodable is answered exactly when the message is; the
\* reply carries the offer of the last rule that matches the architecture
\* and the requested user class, which is the text of option 77 when it is
\* present and decodable and "" otherwise, so a request without a decodable
\* option 77 matches, of the rules with a user class filter, exactly those
\* whose filter is "".
C12_UserClassIsOptional ==
  Handled =>
    LET m == Unwrap(message)
        text == RequestedUserClass(m)
        architecture == Unwrap(m.opts[OptClientSystemArchitecture])
        matching == RulesMatchingText(responders, architecture, text)
    IN /\ \A uc \in UserClassOpts :
            IsSome(handle_packet(WithUserClass(m, uc), responders))
              = IsSome(response)
       /\ IsSome(response) =>
            LET r == Unwrap(response)
            IN /\ r.siaddr = IF matching = {} THEN UNSPECIFIED
                             ELSE responders[Max(matching)].redirect_to
               /\ r.opts[OptBootfileName] =
                    Some(IF matching = {} THEN << >>
                         ELSE responders[Max(matching)].boot_file)
               /\ m.opts[OptUserClass] \in {None, Some(<<255>>)} =>
                    \A i \in 1..Len(responders) :
                      responders[i].user_class # None =>
                        (i \in matching =>
                           responders[i].user_class = Some(<< >>))

\* a request whose option 77 is not UTF-8 has been answered from a table
\* whose last rule filters on the user class "" and whose first rule
\* filters on "iPXE" with another offer: the reply carries the last rule's
C12_Witness ==
  /\ pc = "returned"
  /\ IsSome(response)
  /\ Unwrap(message).opts[OptUserClass] = Some(<<255>>)
  /\ Len(responders) = 2
  /\ responders[1].user_class = Some(iPXE)
  /\ responders[2].user_class = Some(<< >>)
  /\ responders[1].boot_file # responders[2].boot_file
  /\ Unwrap(response).opts[OptBootfileName] = Some(responders[2].boot_file)


(***************************************************************************)
(* The shape of the reply.                                                 *)
(***************************************************************************)
\* the Message a receiver decodes from the datagram d
DecodedReply(d) == (CHOOSE r \in DecodeResults(d) : r.ok).msg

\* C13: option 43 of every reply is the 11 bytes 6, 8, eight zero bytes,
\* 255, whatever the request and the selected rule, in the response that
\* handle_packet returns, in the encoded response about to be sent and in
\* every datagram on the wire.
C13_VendorOptionIsFixed ==
  LET fixed == <<6, 8, 0, 0, 0, 0, 0, 0, 0, 0, 255>>
  IN /\ (Handled /\ IsSome(response)) =>
          /\ Unwrap(response).opts[OptVendorExtensions] = Some(fixed)
          /\ Len(Unwrap(Unwrap(response).opts[OptVendorExtensions])) = 11
     /\ pc = "send" =>
          DecodedReply(response_buffer).opts[OptVendorExtensions] = Some(fixed)
     /\ \A i \in 1..Len(wire) :
          DecodedReply(wire[i].datagram).opts[OptVendorExtensions] = Some(fixed)

\* two replies to different requests, with different boot files, are on the
\* wire
C13_Witness ==
  /\ Len(wire) = 2
  /\ wire[1].request # wire[2].request
  /\ DecodedReply(wire[1].datagram).opts[OptBootfileName]
       # DecodedReply(wire[2].datagram).opts[OptBootfileName]


(***************************************************************************)
(* Round trip of the reply.                                                *)
(***************************************************************************)
\* the five options of a reply
ReplyOptions ==
  {OptMessageType, OptVendorExtensions, OptServerIdentifier,
   OptClassIdentifier, OptBootfileName}

\* decoding bytes succeeds, in one way, and gives the opcode, the xid, the
\* chaddr and the five reply options of r
DecodesTo(bytes, r) ==
  /\ DecodeResults(bytes) # {}
  /\ \A d \in DecodeResults(bytes) :
       /\ d.ok
       /\ d.msg.opcode = r.opcode
       /\ d.msg.xid = r.xid
       /\ d.msg.chaddr = r.chaddr
       /\ \A c \in ReplyOptions :
            /\ IsSome(r.opts[c])
            /\ d.msg.opts[c] = r.opts[c]

RECURSIVE ParseDotted(_, _, _)
ParseDotted(text, acc, cur) ==
  IF text = << >> THEN Append(acc, cur)
  ELSE IF Head(text) = 46 THEN ParseDotted(Tail(text), Append(acc, cur), 0)
  ELSE ParseDotted(Tail(text), acc, 10 * cur + (Head(text) - 48))

\* text is made of digits and dots only
IsDotted(text) ==
  \A i \in 1..Len(text) : text[i] = 46 \/ text[i] \in 48..57

\* C15: in every reply siaddr, option 54 and the address that sname spells
\* in dotted decimal are one address, and this address and option 67 are
\* the target address and the boot file of one rule of the table, the last
\* one that matches the request, or 0.0.0.0 and "" when no rule matches;
\* "10.0.0.5", "192.168.1.20" and "0.0.0.0" are the texts of the addresses
\* of the tables checked.
C15_AddressesAgree ==
  (Handled /\ IsSome(response)) =>
    LET m == Unwrap(message)
        r == Unwrap(response)
        matching == MatchingRules(responders, m)
        sname == Unwrap(r.sname)
    IN /\ r.opts[OptServerIdentifier] = Some(r.siaddr)
       /\ IsSome(r.sname)
       /\ IsDotted(sname)
       /\ ParseDotted(sname, << >>, 0) = r.siaddr
       /\ r.siaddr = <<10, 0, 0, 5>> =>
            sname = <<49, 48, 46, 48, 46, 48, 46, 53>>
       /\ r.siaddr = <<192, 168, 1, 20>> =>
            sname = <<49, 57, 50, 46, 49, 54, 56, 46, 49, 46, 50, 48>>
       /\ r.siaddr = <<0, 0, 0, 0>> =>
            sname = <<48, 46, 48, 46, 48, 46, 48>>
       /\ IF matching = {}
          THEN /\ r.siaddr = <<0, 0, 0, 0>>
               /\ r.opts[OptBootfileName] = Some(<< >>)
          ELSE \E i \in matching :
                 /\ r.siaddr = responders[i].redirect_to
                 /\ r.opts[OptBootfileName] = Some(responders[i].boot_file)
       /\ pc = "send" =>
            /\ DecodedReply(response_buffer).siaddr = r.siaddr
            /\ DecodedReply(response_buffer).sname = r.sname
            /\ DecodedReply(response_buffer).opts[OptServerIdentifier]
                 = Some(r.siaddr)

\* a request has been answered from a table whose first and last rule both
\* match it and differ in address and in boot file: the reply carries the
\* address 192.168.1.20 in siaddr, option 54 and sname
C15_Witness ==
  /\ pc = "returned"
  /\ IsSome(response)
  /\ Len(responders) = 3
  /\ {1, 3} \subseteq MatchingRules(responders, Unwrap(message))
  /\ responders[1].redirect_to # responders[3].redirect_to
  /\ responders[1].boot_file # responders[3].boot_file
  /\ Unwrap(response).siaddr = <<192, 168, 1, 20>>
  /\ Unwrap(response).sname
       = Some(<<49, 57, 50, 46, 49, 54, 56, 46, 49, 46, 50, 48>>)


\* C16: every reply has one shape, whatever the request: opcode BootReply,
\* the broadcast bit (the top bit of the 16-bit flags) set, option 53 =
\* Offer also when the request was a Request, option 60 = "PXEClient" also
\* when the request's class identifier is longer, and the options 53, 43,
\* 54, 60 and 67 and no other, so none of the request's options 55, 77, 93
\* and 94.
C16_ReplyShapeIsFixed ==
  (Handled /\ IsSome(response)) =>
    LET r == Unwrap(response)
    IN /\ r.opcode = 2
       /\ (r.flags \div 32768) % 2 = 1
       /\ r.opts[OptMessageType] = Some(2)
       /\ r.opts[OptClassIdentifier]
            = Some(<<80, 88, 69, 67, 108, 105, 101, 110, 116>>)
       /\ {c \in OptionCodes : IsSome(r.opts[c])} = {53, 43, 54, 60, 67}
       /\ pc = "send" =>
            /\ DecodedReply(response_buffer).opcode = 2
            /\ (DecodedReply(response_buffer).flags \div 32768) % 2 = 1
            /\ {c \in OptionCodes :
                  IsSome(DecodedReply(response_buffer).opts[c])}
                 = {53, 43, 54, 60, 67}

\* a Request of class identifier "PXEClientXYZ" that carries option 77 has
\* been answered
C16_Witness ==
  /\ pc = "returned"
  /\ IsSome(response)
  /\ Unwrap(message).opts[OptMessageType] = Some(Request)
  /\ Unwrap(message).opts[OptClassIdentifier] = Some(PXEClientXYZ)
  /\ Unwrap(message).opts[OptUserClass] = Some(iPXE)


(***************************************************************************)
(* Replies and send attempts.                                              *)
(***************************************************************************)
\* C17: a step puts at most one datagram on the wire, only as the outcome
\* of the send attempt that is pending, to 255.255.255.255 port 68, and
\* leaves nothing to send again; a send attempt begins exactly when a
\* received request is classified and ends, in one step, with the datagram
\* on the wire or with the send error that ends the run; the replies on the
\* wire are never more than the classified requests.
C17_OneSendAttemptPerRequest ==
  [][/\ Len(wire') <= Len(wire) + 1
     /\ wire' # wire =>
          /\ pc = "send"
          /\ SubSeq(wire', 1, Len(wire)) = wire
          /\ wire'[Len(wire')].to
               = [addr |-> <<255, 255, 255, 255>>, port |-> 68]
          /\ wire'[Len(wire')].datagram = response_buffer
          /\ pc' = "recv"
          /\ response' = None
          /\ response_buffer' = << >>
     /\ (pc # "send" /\ pc' = "send") <=> (classified' # classified)
     /\ classified' # classified =>
          /\ Len(classified') = Len(classified) + 1
          /\ response_buffer' # << >>
     /\ (pc = "send" /\ pc' # "send") =>
          \/ Len(wire') = Len(wire) + 1
          \/ pc' = "failed" /\ err' = Some("send") /\ wire' = wire
     /\ (pc = "send" /\ pc' = "send") => UNCHANGED vars
     /\ Len(wire') <= Len(classified')]_vars

\* two requests were classified, the reply of the second is on the wire and
\* no send is pending: the first of the two send attempts failed
C17_Witness ==
  /\ Len(classified) = 2
  /\ Len(wire) = 1
  /\ wire[1].request = classified[2]
  /\ classified[1] # classified[2]
  /\ pc = "recv"
  /\ response_buffer = << >>


(***************************************************************************)
(* The responder table.                                                    *)
(***************************************************************************)
\* the rules of main, in the order of its add_responder calls
ConfiguredTable ==
  <<[architecture |-> Some(BC), user_class |-> None,
     redirect_to |-> <<10, 0, 0, 5>>, boot_file |-> ipxe_efi],
    [architecture |-> Some(Intelx86PC), user_class |-> None,
     redirect_to |-> <<10, 0, 0, 5>>, boot_file |-> undionly_kpxe],
    [architecture |-> None, user_class |-> Some(iPXE),
     redirect_to |-> <<10, 0, 0, 5>>, boot_file |-> boot_ipxe_url]>>

\* C18: the responder table is fixed: each add_responder call leaves the
\* rules added before it in place and puts its rule after them, so the
\* table a proxy is built with is the rules of main in call order; no step
\* of a proxy (receiving, ignoring, answering, sending) changes its table;
\* the proxy built after a restart has the same table; and every reply is
\* the one handle_packet gives for the request under this table.
C18_ResponderTableIsFixed ==
  [][/\ builder' # builder =>
          \/ builder' = << >>
          \/ /\ Len(builder') = Len(builder) + 1
             /\ SubSeq(builder', 1, Len(builder)) = builder
             /\ builder' = SubSeq(ConfiguredTable, 1, Len(builder'))
     /\ (socket = "bound" /\ socket' = "bound") => responders' = responders
     /\ socket' = "bound" => responders' = ConfiguredTable
     /\ pc' = "send" =>
          response' = handle_packet(Unwrap(message'), ConfiguredTable)
     /\ (pc = "recv" /\ pc' = "recv" /\ IsSome(message')) =>
          handle_packet(Unwrap(message'), ConfiguredTable) = None]_vars

\* a proxy built after a restart (a request was classified by an earlier
\* proxy, this one has received nothing yet) holds the table of main
C18_Witness ==
  /\ pc = "recv"
  /\ socket = "bound"
  /\ received = None
  /\ Len(classified) = 2
  /\ Len(wire) = 1
  /\ responders = ConfiguredTable


(***************************************************************************)
(* The end of a listener run.                                              *)
(***************************************************************************)
\* C19: a listener run ends (its socket is gone) only with an error in the
\* hands of the supervisor; a datagram that is received, whatever its
\* bytes, leaves the listener with its socket, about to send the reply or,
\* when the datagram is ignored, at recv again.
C19_NoDatagramEndsRun ==
  [][/\ (socket = "bound" /\ socket' = "none") =>
          /\ pc' = "failed"
          /\ IsSome(err')
     /\ (pc = "recv" /\ pc' # "failed") =>
          /\ socket' = "bound"
          /\ pc' \in {"recv", "send"}
          /\ response' = None => pc' = "recv"]_vars


(***************************************************************************)
(* Independence of the history.                                            *)
(***************************************************************************)
\* what the listener can do with the datagram d, from the bytes of d and the
\* table of main alone: the bytes of its reply (none for no reply), and
\* whether the run ends in the decoding
Outcomes(d) ==
  {IF r.ok
   THEN LET resp == handle_packet(r.msg, ConfiguredTable)
        IN [reply |-> IF IsSome(resp) THEN Encode(Unwrap(resp)) ELSE << >>,
            ended |-> FALSE]
   ELSE [reply |-> << >>, ended |-> TRUE] :
   r \in DecodeResults(SubSeq(d, 1, Min(Len(d), 1500)))}

\* C20: the outcome of a received datagram, no reply or the bytes of the
\* reply, is the one its bytes and the table of main give, whatever was
\* received before it, whatever earlier datagrams left in buf, and however
\* many proxies were built before this one.
C20_OutcomeIndependentOfHistory ==
  [][(/\ pc = "recv"
      /\ pc' # "failed"
      /\ IsSome(received'))
     => [reply |-> response_buffer', ended |-> pc' = "panicked"]
          \in Outcomes(Unwrap(received'))]_vars

\* a request is answered for the second time, after a longer datagram
\* whose bytes are still in buf behind it, with the reply that answered it
\* on the wire the first time
C20_Witness ==
  /\ pc = "send"
  /\ Len(classified) = 2
  /\ classified[1] = classified[2]
  /\ Len(buf) > valid_bytes
  /\ Len(wire) = 1
  /\ wire[1].request = classified[1]
  /\ wire[1].datagram = response_buffer

====
